---- MODULE Spec2Model ----
(***************************************************************************)
(* Verification service of nimble_iot_bc (apis/verification.py).          *)
(*                                                                         *)
(* One GET /verify call looks a product's hash record up in the document  *)
(* store (MongoDB collection HashData), asks the ledger service whether    *)
(* the recorded hash is indexed (check_in_blockchain), and, if so,         *)
(* recomputes the hash from the readings in the time-series store          *)
(* (check_data_integrity).  The call is cut at its blocking points: the    *)
(* argument parser, the document-store query, the ledger request and the   *)
(* time-series query.                                                      *)
(*                                                                         *)
(* Python values that the code tests for truth or concatenates are kept    *)
(* with their type: [type |-> "bool" | "str" | "NoneType", val |-> ...].   *)
(***************************************************************************)
EXTENDS Integers, Sequences, FiniteSets, TLC

VARIABLES
    HashData,               \* document store: mongo.db['HashData'], in natural order
    env,                    \* time-series store: the points of measurement env
    ledger,                 \* ledger service: key -> the "result" of its JSON body
    pc,                     \* per call: the point the call has reached
    request,                \* per call: the query arguments of the HTTP request
    args,                   \* per call: product_id, from_time, to_time (l.128-130)
    product_hash_doc,       \* per call: l.141, the lookup's answer
    list_product_hash_doc,  \* per call: l.145
    response_from_bc,       \* per call: l.98
    check_hash_in_bc,       \* per call: l.155
    results,                \* per call: l.64
    cross_validate_iot_data,\* per call: l.163
    outcome,                \* per call: what the caller receives
    io                      \* per call: the requests sent to the collaborators

vars == <<HashData, env, ledger, pc, request, args, product_hash_doc,
          list_product_hash_doc,
          response_from_bc, check_hash_in_bc, results, cross_validate_iot_data,
          outcome, io>>

stores == <<HashData, env, ledger>>

----------------------------------------------------------------------------
(* Bounds *)

NumCalls == 1       \* verification calls in flight
MaxTime == 2        \* timestamps of readings are 1..MaxTime
NumConcurrent == 2  \* calls in flight at once, for the concurrency properties

Calls == 1..NumCalls
ConcurrentCalls == 1..NumConcurrent
Times == 1..MaxTime
Values == {0, 1}    \* what a reading carries besides its timestamp and hash tag

----------------------------------------------------------------------------
(* Python values *)

PyBool(b) == [type |-> "bool", val |-> IF b THEN "True" ELSE "False"]
PyStr(s) == [type |-> "str", val |-> s]
None == [type |-> "NoneType", val |-> "None"]

\* Truth value testing, as `if x:` does it.
Truthy(v) ==
    CASE v.type = "bool" -> v.val = "True"
      [] v.type = "str" -> v.val # ""
      [] OTHER -> FALSE

\* 'literal' + v is defined for str operands only; anything else is a TypeError.
CanConcatToStr(v) == v.type = "str"

\* How a call into a function or a collaborator ends, and a call not made yet.
Return(v) == [state |-> "returned", raised |-> FALSE, exception |-> "", value |-> v]
Raise(e) == [state |-> "raised", raised |-> TRUE, exception |-> e]
NotCalled == [state |-> "not called", raised |-> FALSE, exception |-> ""]
Returned(r) == r.state = "returned"

----------------------------------------------------------------------------
(* Canonical document and hash *)

RECURSIVE create_sensor_doc(_)
\* One document per data point, in the order of the points; the hash tag is
\* not part of the document.
create_sensor_doc(data_points) ==
    IF data_points = <<>> THEN <<>>
    ELSE <<[time |-> Head(data_points).time, value |-> Head(data_points).value]>>
         \o create_sensor_doc(Tail(data_points))

dumps_doc(d) ==
    "{\"time\": " \o ToString(d.time) \o ", \"value\": " \o ToString(d.value) \o "}"

RECURSIVE dumps_items(_)
dumps_items(list) ==
    IF list = <<>> THEN ""
    ELSE IF Len(list) = 1 THEN dumps_doc(Head(list))
    ELSE dumps_doc(Head(list)) \o ", " \o dumps_items(Tail(list))

\* json.dumps of a list of documents: the items in list order.
json_dumps(list) == "[" \o dumps_items(list) \o "]"

\* hashlib.sha256(...).hexdigest(), as a collision-free digest of its input.
sha256_hexdigest(text) == "sha256(" \o text \o ")"

----------------------------------------------------------------------------
(* The collaborators' contents *)

Readings == [time : Times, value : Values]

\* A batch as it was hashed when the record was written: two distinct readings
\* in time order.
Batches == {b \in Readings \X Readings : b[1] # b[2] /\ b[1].time <= b[2].time}

RecordedHash(batch) == sha256_hexdigest(json_dumps(create_sensor_doc(batch)))

\* The hash of a record whose readings are not in the time-series store.
OtherHash == sha256_hexdigest(json_dumps(<<>>))

Tagged(readings, h) ==
    {[time |-> r.time, value |-> r.value, hash |-> h] : r \in readings}

\* The store now: the batch as recorded, the batch with its first reading
\* altered, or nothing.
Drifted(batch) ==
    {{batch[1], batch[2]}, {}}
    \cup {{[batch[1] EXCEPT !.value = v], batch[2]} : v \in Values}

hash_doc(epc, from_time, to_time, h) ==
    [epc |-> epc, event |-> [from_time |-> from_time, to_time |-> to_time],
     sensor |-> [hash |-> h]]

HashDataContents(h) ==
    LET d1 == hash_doc("EPC1", "t1", "t2", h)
        d2 == hash_doc("EPC1", "t1", "t3", OtherHash)
        d3 == hash_doc("EPC2", "t1", "t2", OtherHash)
    IN  {<<>>, <<d1>>, <<d1, d2>>, <<d2, d1>>, <<d3, d1>>}

\* The value of "result" in the ledger's JSON body, decoded by response.json().
JsonResults ==
    {PyBool(TRUE), PyBool(FALSE), PyStr("true"), PyStr("false"), PyStr("")}

StatusCodes == {200, 404, 500}

LedgerKey(h) == "sensor," \o h

----------------------------------------------------------------------------
(* Request parser *)

\* The arguments of event_duration_parser and their required flag.
event_duration_parser == [productID |-> TRUE, from |-> TRUE, to |-> TRUE]

\* What a caller may send: each argument absent (None), empty or a value.
Requests ==
    [productID : {None, PyStr("EPC1")},
     from : {None, PyStr("t1")},
     to : {None, PyStr(""), PyStr("t2")}]

\* parse_args(): a required argument that the request lacks aborts the call
\* with 400; an empty string is a value.
parse_args(req) ==
    IF \E a \in DOMAIN event_duration_parser :
           event_duration_parser[a] /\ req[a] = None
    THEN Raise("BadRequest")
    ELSE Return(req)

----------------------------------------------------------------------------
(* Document store lookup *)

\* The query dict of get(): always epc, the window only when both bounds are
\* truthy.
build_query(product_id, from_time, to_time) ==
    IF Truthy(from_time) /\ Truthy(to_time)
    THEN ("epc" :> product_id.val) @@ ("event.from_time" :> from_time.val)
         @@ ("event.to_time" :> to_time.val)
    ELSE ("epc" :> product_id.val)

Matches(doc, query) ==
    /\ doc.epc = query["epc"]
    /\ "event.from_time" \in DOMAIN query
           => doc.event.from_time = query["event.from_time"]
    /\ "event.to_time" \in DOMAIN query
           => doc.event.to_time = query["event.to_time"]

\* Variant: the lookup is a find_one_and_delete, which takes the first
\* matching document out of the collection.
find_one_and_delete_effect(collection, query) ==
    LET hits == {i \in DOMAIN collection : Matches(collection[i], query)}
    IN  IF hits = {} THEN collection
        ELSE LET first == CHOOSE i \in hits : \A j \in hits : i <= j
             IN  [i \in 1..(Len(collection) - 1) |->
                      IF i < first THEN collection[i] ELSE collection[i + 1]]

\* l.145-147: find() with a filter and a projection only reads; the
\* collection after the call is the collection before it.
find_effect(collection, query) == collection

\* list(mongo.db['HashData'].find(query, projection)), or the driver's failure.
mongo_find(collection, query) ==
    {Raise("PyMongoError"),
     Return(SelectSeq(collection, LAMBDA doc : Matches(doc, query)))}

----------------------------------------------------------------------------
(* Ledger existence check *)

\* l.98: an HTTP GET on /hash asks the ledger service and registers nothing.
requests_get_effect(entries, key) == entries

\* requests.get(url, params={'hash': key}): no timeout and no try/except, so
\* a transport failure raises; otherwise a response with a status and a body.
requests_get(key) ==
    {Raise("ConnectionError")}
    \cup {Return([status_code |-> s, json |-> [result |-> ledger[key]]]) :
              s \in StatusCodes}

\* Variant: the body is read whatever the status.
check_in_blockchain_any_status(incoming_hash, got) ==
    IF got.raised THEN got
    ELSE LET result_bc == got.value.json
         IN  IF CanConcatToStr(result_bc.result)
             THEN Return([exists |-> result_bc.result])
             ELSE Raise("TypeError")

\* check_in_blockchain after requests.get has answered (or raised).
check_in_blockchain(incoming_hash, got) ==
    IF got.raised THEN got
    ELSE IF got.value.status_code = 200
    THEN LET result_bc == got.value.json
         IN  IF CanConcatToStr(result_bc.result)     \* 'BC response: ' + ...
             THEN Return([exists |-> result_bc.result])
             ELSE Raise("TypeError")
    ELSE Return([exists |-> PyBool(FALSE)])

----------------------------------------------------------------------------
(* Integrity recomputation *)

IsOrderOf(seq, points) ==
    /\ Len(seq) = Cardinality(points)
    /\ {seq[i] : i \in DOMAIN seq} = points
    /\ \A i, j \in DOMAIN seq : i < j => seq[i].time <= seq[j].time

Orders(points) ==
    {seq \in UNION {[1..n -> points] : n \in {Cardinality(points)}} :
         IsOrderOf(seq, points)}

\* l.60-63: the statement sent is a SELECT, which leaves the measurement as
\* it is.
query_effect(measurement, incoming_hash) == measurement

\* influx.connect().query("SELECT * FROM env WHERE hash='<incoming_hash>'"):
\* no series when no point matches, otherwise one series with the matching
\* points in ascending time, points of equal time in either order; or the
\* client's failure.
influx_query(incoming_hash) ==
    LET points == {p \in env : p.hash = incoming_hash}
    IN  {Raise("InfluxDBClientError")}
        \cup (IF points = {} THEN {Return(<<>>)}
              ELSE {Return(<<seq>>) : seq \in Orders(points)})

\* l.67-83: the hash of the first series' documents against the recorded one.
recompute(incoming_hash, series) ==
    IF Len(series) > 0
    THEN LET list_sensordoc == create_sensor_doc(series[1])
             generated_hash == sha256_hexdigest(json_dumps(list_sensordoc))
         IN  IF generated_hash = incoming_hash
             THEN [checked |-> TRUE, hash |-> PyStr(generated_hash)]
             ELSE [checked |-> FALSE, hash |-> PyStr(generated_hash)]
    ELSE [checked |-> FALSE, hash |-> None]

\* Variant: the query's failure is caught and reported as a failed check.
check_data_integrity_catching(incoming_hash, got) ==
    IF got.raised THEN Return([checked |-> FALSE, hash |-> None])
    ELSE Return(recompute(incoming_hash, got.value))

\* check_data_integrity after the query has answered (or raised): a failure
\* of the query is not caught.
check_data_integrity(incoming_hash, got) ==
    IF got.raised THEN got
    ELSE Return(recompute(incoming_hash, got.value))

----------------------------------------------------------------------------
(* The verdicts of get() and how they reach the caller *)

\* Variant: the test looks at the returned dict, which is never empty.
exists_in_blockchain_dict(check) == DOMAIN check # {}

\* l.159: the test that lets the integrity recomputation run.
exists_in_blockchain(check) == Truthy(check.exists)

\* Variant: a hash the ledger does not confirm is asked for again.
after_check_in_blockchain_retry(checked) ==
    IF checked.raised THEN "done"
    ELSE IF exists_in_blockchain(checked.value) THEN "check_data_integrity"
    ELSE "check_in_blockchain"

\* l.155-159 and 184-187: where get() goes once the ledger check is back: on
\* to the integrity recomputation, or out with an exception or a verdict.
after_check_in_blockchain(checked) ==
    IF checked.raised THEN "done"
    ELSE IF exists_in_blockchain(checked.value) THEN "check_data_integrity"
    ELSE "done"

\* Variant: the two flags of the validated verdict are swapped.
verdict_cross_validated_swapped(cross_validate, doc) ==
    IF cross_validate.checked
    THEN [exists |-> FALSE, validated |-> TRUE, hash |-> PyStr(doc.sensor.hash)]
    ELSE [exists |-> TRUE, validated |-> FALSE, hash |-> PyStr(doc.sensor.hash)]

\* l.168-182: the ledger has the hash; the verdict carries the record's hash.
verdict_cross_validated(cross_validate, doc) ==
    IF cross_validate.checked
    THEN [exists |-> TRUE, validated |-> TRUE, hash |-> PyStr(doc.sensor.hash)]
    ELSE [exists |-> TRUE, validated |-> FALSE, hash |-> PyStr(doc.sensor.hash)]

\* l.187: the ledger does not have the hash.
verdict_not_in_blockchain == [exists |-> FALSE, validated |-> FALSE]

\* l.191: no hash record for the query.
verdict_no_data == [exists |-> FALSE, validated |-> FALSE]

\* Variant: marshalling with skip_none, which drops a field the dict lacks.
marshal_with_skip_none(d) == d

\* @api.marshal_with(verified_response): the three fields of the model, a
\* field the dict lacks as null.
marshal_with(d) ==
    [exists |-> d.exists, validated |-> d.validated,
     hash |-> IF "hash" \in DOMAIN d THEN d.hash ELSE None]

\* What the caller receives: a marshalled verdict with 200, or an error status.
NoOutcome == [status |-> 0, body |-> [message |-> ""]]
Responded(d) == [status |-> 200, body |-> marshal_with(d)]
Aborted(code, e) == [status |-> code, body |-> [message |-> e]]

----------------------------------------------------------------------------
(* Initial state *)

NoArgs == [product_id |-> None, from_time |-> None, to_time |-> None]
NoRequest == [productID |-> None, from |-> None, to |-> None]

\* No call of the set has been received yet.
NoCallYet(calls) ==
    /\ pc = [c \in calls |-> "idle"]
    /\ request = [c \in calls |-> NoRequest]
    /\ args = [c \in calls |-> NoArgs]
    /\ product_hash_doc = [c \in calls |-> NotCalled]
    /\ list_product_hash_doc = [c \in calls |-> <<>>]
    /\ response_from_bc = [c \in calls |-> NotCalled]
    /\ check_hash_in_bc = [c \in calls |-> NotCalled]
    /\ results = [c \in calls |-> NotCalled]
    /\ cross_validate_iot_data = [c \in calls |-> NotCalled]
    /\ outcome = [c \in calls |-> NoOutcome]
    /\ io = [c \in calls |-> <<>>]

Init ==
    /\ \E batch \in Batches :
           /\ HashData \in HashDataContents(RecordedHash(batch))
           /\ env \in {Tagged(now, RecordedHash(batch)) : now \in Drifted(batch)}
           /\ ledger \in [{LedgerKey(RecordedHash(batch)), LedgerKey(OtherHash)}
                              -> JsonResults]
    /\ NoCallYet(Calls)

\* Several calls in flight at once over one of a few store contents: two
\* records of the same product, the readings as recorded or gone, and a
\* ledger that confirms a hash or does not.
ConcurrentBatch ==
    <<[time |-> 1, value |-> 0], [time |-> 2, value |-> 0]>>

InitConcurrent ==
    /\ LET h == RecordedHash(ConcurrentBatch)
           d1 == hash_doc("EPC1", "t1", "t2", h)
           d2 == hash_doc("EPC1", "t1", "t3", OtherHash)
       IN  /\ HashData \in {<<d1, d2>>, <<d2, d1>>}
           /\ env \in {Tagged({ConcurrentBatch[1], ConcurrentBatch[2]}, h), {}}
           /\ ledger \in [{LedgerKey(h), LedgerKey(OtherHash)}
                              -> {PyStr("true"), PyStr("")}]
    /\ NoCallYet(ConcurrentCalls)

----------------------------------------------------------------------------
(* The steps of one call *)

\* Variant: the newest record, the last one returned, is the one used.
last_record(docs) == docs[Len(docs)]

\* l.150, 157, 165 and 174: list_product_hash_doc[0], the first record the
\* lookup returned, whatever else matched.
first_record(docs) == docs[1]

\* Variant: the names of get() are module-level, one set for all calls.
frame_shared(c) == 1

\* l.123-191: args, product_hash_doc, ... are locals of get(), so every
\* invocation reads and writes a set of its own.
frame(c) == c

\* A caller sends GET /verify with some arguments; l.127-130: the parser
\* rejects the request or hands the arguments to get().
get_parse_args(c) ==
    /\ pc[c] = "idle"
    /\ \E req \in Requests :
           LET parsed == parse_args(req)
           IN  /\ request' = [request EXCEPT ![c] = req]
               /\ IF parsed.raised
                  THEN /\ outcome' = [outcome EXCEPT ![c] =
                                         Aborted(400, parsed.exception)]
                       /\ pc' = [pc EXCEPT ![c] = "done"]
                       /\ UNCHANGED args
                  ELSE /\ args' = [args EXCEPT ![frame(c)] =
                                      [product_id |-> parsed.value.productID,
                                       from_time |-> parsed.value.from,
                                       to_time |-> parsed.value.to]]
                       /\ pc' = [pc EXCEPT ![c] = "find"]
                       /\ UNCHANGED outcome
    /\ UNCHANGED <<stores, product_hash_doc, list_product_hash_doc,
                   response_from_bc, check_hash_in_bc, results,
                   cross_validate_iot_data, io>>

\* l.132-148 and 189-191: the document-store lookup and the no-data verdict.
get_find(c) ==
    /\ pc[c] = "find"
    /\ LET query == build_query(args[frame(c)].product_id, args[frame(c)].from_time,
                                args[frame(c)].to_time)
       IN  /\ io' = [io EXCEPT ![c] = Append(@, [to |-> "mongo", sent |-> query])]
           /\ HashData' = find_effect(HashData, query)
           /\ \E found \in mongo_find(HashData, query) :
                  IF found.raised
                  THEN /\ product_hash_doc' = [product_hash_doc EXCEPT ![frame(c)] = found]
                       /\ outcome' = [outcome EXCEPT ![c] =
                                         Aborted(500, found.exception)]
                       /\ pc' = [pc EXCEPT ![c] = "done"]
                       /\ UNCHANGED list_product_hash_doc
                  ELSE /\ product_hash_doc' = [product_hash_doc EXCEPT ![frame(c)] = found]
                       /\ list_product_hash_doc' =
                              [list_product_hash_doc EXCEPT ![frame(c)] = found.value]
                       /\ IF Len(found.value) > 0
                          THEN /\ pc' = [pc EXCEPT ![c] = "check_in_blockchain"]
                               /\ UNCHANGED outcome
                          ELSE /\ outcome' = [outcome EXCEPT ![c] =
                                                 Responded(verdict_no_data)]
                               /\ pc' = [pc EXCEPT ![c] = "done"]
    /\ UNCHANGED <<env, ledger, request, args, response_from_bc,
                   check_hash_in_bc, results, cross_validate_iot_data>>

\* l.152-159 and 184-187: the ledger check, submitted to the executor and
\* waited for, and the verdict when the hash is not on the ledger.
get_check_in_blockchain(c) ==
    /\ pc[c] = "check_in_blockchain"
    /\ LET incoming_hash == first_record(list_product_hash_doc[frame(c)]).sensor.hash
           key_value_for_api == LedgerKey(incoming_hash)
       IN  /\ io' = [io EXCEPT ![c] =
                        Append(@, [to |-> "ledger", sent |-> key_value_for_api])]
           /\ ledger' = requests_get_effect(ledger, key_value_for_api)
           /\ \E got \in requests_get(key_value_for_api) :
                  LET checked == check_in_blockchain(incoming_hash, got)
                  IN  /\ response_from_bc' = [response_from_bc EXCEPT ![frame(c)] = got]
                      /\ check_hash_in_bc' = [check_hash_in_bc EXCEPT ![frame(c)] = checked]
                      /\ pc' = [pc EXCEPT ![c] = after_check_in_blockchain(checked)]
                      /\ IF checked.raised
                         THEN outcome' = [outcome EXCEPT ![c] =
                                             Aborted(500, checked.exception)]
                         ELSE IF exists_in_blockchain(checked.value)
                         THEN UNCHANGED outcome
                         ELSE outcome' = [outcome EXCEPT ![c] =
                                             Responded(verdict_not_in_blockchain)]
    /\ UNCHANGED <<HashData, env, request, args, product_hash_doc,
                   list_product_hash_doc, results, cross_validate_iot_data>>

\* l.163-182: the integrity recomputation, submitted and waited for, and the
\* verdict built from it.
get_check_data_integrity(c) ==
    /\ pc[c] = "check_data_integrity"
    /\ LET incoming_hash == first_record(list_product_hash_doc[frame(c)]).sensor.hash
       IN  /\ io' = [io EXCEPT ![c] =
                        Append(@, [to |-> "influx", sent |-> incoming_hash])]
           /\ env' = query_effect(env, incoming_hash)
           /\ \E got \in influx_query(incoming_hash) :
                  LET crossed == check_data_integrity(incoming_hash, got)
                  IN  /\ results' = [results EXCEPT ![frame(c)] = got]
                      /\ cross_validate_iot_data' =
                             [cross_validate_iot_data EXCEPT ![frame(c)] = crossed]
                      /\ IF crossed.raised
                         THEN outcome' = [outcome EXCEPT ![c] =
                                             Aborted(500, crossed.exception)]
                         ELSE outcome' = [outcome EXCEPT ![c] =
                                             Responded(verdict_cross_validated(
                                                 crossed.value,
                                                 first_record(list_product_hash_doc[frame(c)])))]
                      /\ pc' = [pc EXCEPT ![c] = "done"]
    /\ UNCHANGED <<HashData, ledger, request, args, product_hash_doc,
                   list_product_hash_doc, response_from_bc, check_hash_in_bc>>

\* The steps of call c, in the order get() takes them.
Step(c) ==
    \/ get_parse_args(c)
    \/ get_find(c)
    \/ get_check_in_blockchain(c)
    \/ get_check_data_integrity(c)

Next == \E c \in DOMAIN pc : Step(c)

Spec == Init /\ [][Next]_vars

\* The same steps, interleaved in any order between concurrent calls.
SpecConcurrent == InitConcurrent /\ [][Next]_vars

\* Every call is served by a worker of its own, and every collaborator
\* answers or fails: a call that can take its next step takes it.
FairSpec == Spec /\ \A c \in Calls : WF_vars(Step(c))

----------------------------------------------------------------------------
(* Vocabulary of the properties *)

ReturnedVerdict(c) == outcome[c].status = 200
SurfacedError(c) == outcome[c].status = 500
Rejected(c) == outcome[c].status = 400

HashRecordFound(c) ==
    Returned(product_hash_doc[c]) /\ Len(product_hash_doc[c].value) > 0
NoHashRecord(c) ==
    Returned(product_hash_doc[c]) /\ Len(product_hash_doc[c].value) = 0

RecordedHashOf(c) == list_product_hash_doc[c][1].sensor.hash

\* The ledger answered HTTP 200 with the JSON body {result: <b>}, b a boolean.
LedgerAnswered(c, b) ==
    /\ Returned(response_from_bc[c])
    /\ response_from_bc[c].value.status_code = 200
    /\ response_from_bc[c].value.json.result = PyBool(b)

\* What the time-series store holds now recomputes to h, resp. to another hash,
\* in whatever order the store returns it.
RecomputesTo(h) ==
    \A got \in influx_query(h) :
        Returned(got) => check_data_integrity(h, got).value.checked
Drifts(h) ==
    \A got \in influx_query(h) :
        Returned(got) => /\ ~check_data_integrity(h, got).value.checked
                         /\ check_data_integrity(h, got).value.hash # None

Asked(c, who) == \E i \in DOMAIN io[c] : io[c][i].to = who

VerdictIs(c, e, v, h) ==
    outcome[c] = [status |-> 200, body |-> [exists |-> e, validated |-> v, hash |-> h]]

----------------------------------------------------------------------------
(* C1 *)

\* C1: every verdict a call returns has validated = true only with
\* exists = true, whatever the three collaborators answered.
C1_ValidatedImpliesExists ==
    \A c \in Calls :
        ReturnedVerdict(c) => (outcome[c].body.validated => outcome[c].body.exists)

C1_Witness ==
    \E c \in Calls : ReturnedVerdict(c) /\ outcome[c].body.validated

(* C2 *)

\* C2: a record is found, the ledger answers 200 {result: true} and the
\* store's readings recompute to the recorded hash: the call returns
\* {exists: true, validated: true, hash: recordedHash}.
C2_VerifiedVerdict ==
    \A c \in Calls :
        (/\ pc[c] = "done"
         /\ HashRecordFound(c)
         /\ LedgerAnswered(c, TRUE)
         /\ RecomputesTo(RecordedHashOf(c)))
        => VerdictIs(c, TRUE, TRUE, PyStr(RecordedHashOf(c)))

(* C3 *)

\* C3: a record is found and the ledger answers 200 {result: false}: the call
\* returns {exists: false, validated: false} with hash null, as a response and
\* not as an error.
C3_NotOnLedgerVerdict ==
    \A c \in Calls :
        (/\ pc[c] = "done"
         /\ HashRecordFound(c)
         /\ LedgerAnswered(c, FALSE))
        => VerdictIs(c, FALSE, FALSE, None)

(* C4 *)

\* C4: a record is found, the ledger answers 200 {result: true} and the
\* store's readings recompute to another hash: the call returns
\* {exists: true, validated: false, hash: recordedHash}, the recorded hash and
\* not the recomputed one.
C4_CorruptedVerdict ==
    \A c \in Calls :
        (/\ pc[c] = "done"
         /\ HashRecordFound(c)
         /\ LedgerAnswered(c, TRUE)
         /\ Drifts(RecordedHashOf(c)))
        => VerdictIs(c, TRUE, FALSE, PyStr(RecordedHashOf(c)))

(* C5 *)

\* C5: when the lookup finds no hash record, the call returns exactly
\* {exists: false, validated: false, hash: null}.
C5_NoRecordVerdict ==
    \A c \in Calls : NoHashRecord(c) => VerdictIs(c, FALSE, FALSE, None)

C5_Witness ==
    \E c \in Calls : NoHashRecord(c) /\ pc[c] = "done"

(* C6 *)

\* C6: a ledger request that raises (transport failure, timeout) ends like a
\* "not found" answer, with {exists: false, validated: false}, and never as
\* an error.
C6_LedgerFailureFailsClosed ==
    \A c \in Calls :
        (pc[c] = "done" /\ response_from_bc[c].raised)
        => VerdictIs(c, FALSE, FALSE, None)

(* C7 *)

\* C7: when the time-series query raises during the integrity recomputation,
\* the call ends in a surfaced error and returns no verdict.
C7_StoreFailureSurfaces ==
    \A c \in Calls :
        results[c].raised => (SurfacedError(c) /\ ~ReturnedVerdict(c))

C7_Witness ==
    \E c \in Calls : results[c].raised /\ pc[c] = "done"

(* C8 *)

\* C8: the hash check_data_integrity computed in a call is the hash it
\* computes for every order in which the store may return the same readings.
C8_OrderInsensitive ==
    \A c \in Calls :
        Returned(results[c])
        => \A got \in influx_query(RecordedHashOf(c)) :
               Returned(got)
               => check_data_integrity(RecordedHashOf(c), got).value.hash
                      = cross_validate_iot_data[c].value.hash

(* C9 *)

\* C9: a request with productID but without from and/or to is accepted: the
\* call is not rejected at the entry point.
C9_BoundsOptional ==
    \A c \in Calls :
        (/\ pc[c] # "idle"
         /\ request[c].productID # None
         /\ (request[c].from = None \/ request[c].to = None))
        => ~Rejected(c)

(* C10 *)

\* C10: the time-series store is queried only after the call's ledger check
\* has returned a true exists; a call that found no record never contacts the
\* ledger, and a call whose ledger check did not return a true exists never
\* queries the time-series store.
C10_CausalOrder ==
    \A c \in Calls :
        /\ \A i \in DOMAIN io[c] :
               io[c][i].to = "influx"
               => /\ \E j \in 1..(i - 1) : io[c][j].to = "ledger"
                  /\ Returned(check_hash_in_bc[c])
                  /\ Truthy(check_hash_in_bc[c].value.exists)
        /\ \A i \in DOMAIN io[c] :
               io[c][i].to = "ledger"
               => /\ \E j \in 1..(i - 1) : io[c][j].to = "mongo"
                  /\ HashRecordFound(c)
        /\ (pc[c] = "done" /\ ~HashRecordFound(c))
               => ~Asked(c, "ledger") /\ ~Asked(c, "influx")
        /\ (pc[c] = "done" /\ Asked(c, "ledger")
               /\ ~(Returned(check_hash_in_bc[c])
                       /\ Truthy(check_hash_in_bc[c].value.exists)))
               => ~Asked(c, "influx")

C10_Witness ==
    \E c \in Calls : Asked(c, "influx") /\ pc[c] = "done"

(* C11 *)

\* C11: when the ledger answers with a status other than 200,
\* check_in_blockchain returns exists = False whatever the body says, and the
\* call returns {exists: false, validated: false} with hash null.
C11_Non200IsNotFound ==
    \A c \in Calls :
        (Returned(response_from_bc[c]) /\ response_from_bc[c].value.status_code # 200)
        => /\ check_hash_in_bc[c] = Return([exists |-> PyBool(FALSE)])
           /\ VerdictIs(c, FALSE, FALSE, None)

C11_Witness ==
    \E c \in Calls :
        /\ Returned(response_from_bc[c])
        /\ response_from_bc[c].value.status_code # 200
        /\ Truthy(response_from_bc[c].value.json.result)
        /\ pc[c] = "done"

(* C12 *)

Sent(c, who) == Cardinality({i \in DOMAIN io[c] : io[c][i].to = who})

\* The terminal outcomes of a call.
IsNotFound(c) == NoHashRecord(c) /\ VerdictIs(c, FALSE, FALSE, None)
IsFoundNotOnLedger(c) == HashRecordFound(c) /\ VerdictIs(c, FALSE, FALSE, None)
IsFoundOnLedgerVerified(c) ==
    HashRecordFound(c) /\ VerdictIs(c, TRUE, TRUE, PyStr(RecordedHashOf(c)))
IsFoundOnLedgerCorrupted(c) ==
    HashRecordFound(c) /\ VerdictIs(c, TRUE, FALSE, PyStr(RecordedHashOf(c)))
IsError(c) == Rejected(c) \/ SurfacedError(c)

TerminalOutcomes(c) ==
    {k \in {"NotFound", "Found-NotOnLedger", "Found-OnLedger-Verified",
            "Found-OnLedger-Corrupted", "error"} :
        CASE k = "NotFound" -> IsNotFound(c)
          [] k = "Found-NotOnLedger" -> IsFoundNotOnLedger(c)
          [] k = "Found-OnLedger-Verified" -> IsFoundOnLedgerVerified(c)
          [] k = "Found-OnLedger-Corrupted" -> IsFoundOnLedgerCorrupted(c)
          [] OTHER -> IsError(c)}

\* C12: every call ends, in exactly one of the terminal outcomes, and stays
\* there with the outcome it has; it sends at most one document-store query,
\* one ledger request and one time-series query.
C12_OneTerminalOutcome ==
    /\ [](\A c \in Calls :
              /\ Sent(c, "mongo") <= 1
              /\ Sent(c, "ledger") <= 1
              /\ Sent(c, "influx") <= 1
              /\ pc[c] = "done" => Cardinality(TerminalOutcomes(c)) = 1
              /\ pc[c] # "done" => outcome[c] = NoOutcome)
    /\ [][\A c \in Calls :
              pc[c] = "done"
              => /\ pc'[c] = "done"
                 /\ outcome'[c] = outcome[c]
                 /\ io'[c] = io[c]]_vars
    /\ \A c \in Calls : <>(pc[c] = "done")

C12_Witness ==
    \E c \in Calls :
        /\ pc[c] = "done"
        /\ Sent(c, "mongo") = 1 /\ Sent(c, "ledger") = 1 /\ Sent(c, "influx") = 1
        /\ IsFoundOnLedgerCorrupted(c)

(* C13 *)

BothBounds(req) == Truthy(req.from) /\ Truthy(req.to)
OneBound(req) == Truthy(req.from) # Truthy(req.to)
HasWindow(query) ==
    "event.from_time" \in DOMAIN query \/ "event.to_time" \in DOMAIN query

\* C13: the lookup filters on the event window only when from and to are both
\* given and non-empty; a request with a productID and only one of the two
\* bounds is looked up by productID alone.
C13_BothOrNeither ==
    \A c \in Calls :
        /\ \A i \in DOMAIN io[c] :
               io[c][i].to = "mongo"
               => (HasWindow(io[c][i].sent) <=> BothBounds(request[c]))
        /\ (pc[c] = "done" /\ request[c].productID # None /\ OneBound(request[c]))
               => /\ Sent(c, "mongo") = 1
                  /\ io[c][1].sent = ("epc" :> request[c].productID.val)

(* C14 *)

NoReadings(h) == {p \in env : p.hash = h} = {}

\* C14: a record is found, the ledger answers 200 {result: true} and the
\* time-series store holds no reading tagged with the recorded hash: the
\* recomputation returns checked = False with no hash, and the call returns
\* {exists: true, validated: false, hash: recordedHash}.
C14_NoReadingsVerdict ==
    \A c \in Calls :
        (/\ pc[c] = "done"
         /\ HashRecordFound(c)
         /\ LedgerAnswered(c, TRUE)
         /\ NoReadings(RecordedHashOf(c)))
        => /\ cross_validate_iot_data[c] = Return([checked |-> FALSE, hash |-> None])
           /\ VerdictIs(c, TRUE, FALSE, PyStr(RecordedHashOf(c)))

----------------------------------------------------------------------------
(* C15 *)

\* get() run from its first line to its last with no other call in between:
\* every response it can produce for a request over the present stores.
get_cross_validate(doc) ==
    {IF check_data_integrity(doc.sensor.hash, got).raised
     THEN Aborted(500, check_data_integrity(doc.sensor.hash, got).exception)
     ELSE Responded(verdict_cross_validated(
              check_data_integrity(doc.sensor.hash, got).value, doc)) :
         got \in influx_query(doc.sensor.hash)}

get_check_hash(doc) ==
    UNION {LET checked == check_in_blockchain(doc.sensor.hash, got)
           IN  IF checked.raised THEN {Aborted(500, checked.exception)}
               ELSE IF exists_in_blockchain(checked.value)
               THEN get_cross_validate(doc)
               ELSE {Responded(verdict_not_in_blockchain)} :
               got \in requests_get(LedgerKey(doc.sensor.hash))}

get(req) ==
    LET parsed == parse_args(req)
    IN  IF parsed.raised THEN {Aborted(400, parsed.exception)}
        ELSE UNION {IF found.raised THEN {Aborted(500, found.exception)}
                    ELSE IF Len(found.value) > 0
                    THEN get_check_hash(first_record(found.value))
                    ELSE {Responded(verdict_no_data)} :
                        found \in mongo_find(HashData,
                                     build_query(parsed.value.productID,
                                                 parsed.value.from,
                                                 parsed.value.to))}

\* The names get() binds while serving call c.
Locals(c) ==
    <<args[c], product_hash_doc[c], list_product_hash_doc[c],
      response_from_bc[c], check_hash_in_bc[c], results[c],
      cross_validate_iot_data[c]>>

\* Everything that belongs to call c: its position, its request, its locals,
\* what it asked the collaborators and what it answers.
OwnState(c) == <<pc[c], request[c], Locals(c), io[c], outcome[c]>>

\* C15: however the steps of concurrent calls interleave over the same stores
\* and ledger, a finished call answers what it could answer when run alone,
\* and a step taken by one call changes nothing that belongs to another call.
C15_CallsIndependent ==
    /\ [](\A c \in DOMAIN pc : pc[c] = "done" => outcome[c] \in get(request[c]))
    /\ [][\A c \in DOMAIN pc : pc'[c] = pc[c] => OwnState(c)' = OwnState(c)]_vars

\* Two calls have both finished over the same stores, one verified and one
\* found corrupted, each against a different hash record.
C15_Witness ==
    \E c, d \in DOMAIN pc :
        /\ c # d
        /\ pc[c] = "done" /\ pc[d] = "done"
        /\ ReturnedVerdict(c) /\ ReturnedVerdict(d)
        /\ outcome[c].body.validated /\ ~outcome[d].body.validated
        /\ outcome[c].body.hash # outcome[d].body.hash
        /\ Asked(c, "influx") /\ Asked(d, "influx")

----------------------------------------------------------------------------
(* C16 *)

\* C16: no step of a call changes the document store, the time-series store
\* or the ledger: the call looks records up, asks and selects, and writes
\* nowhere.
C16_StoresUnchanged == [][stores' = stores]_vars

\* A call has been to all three collaborators, none of them empty, and has
\* answered.
C16_Witness ==
    \E c \in Calls :
        /\ pc[c] = "done"
        /\ Asked(c, "mongo") /\ Asked(c, "ledger") /\ Asked(c, "influx")
        /\ HashData # <<>> /\ env # {}

----------------------------------------------------------------------------
(* C17 *)

\* The hash records of the store that match what call c asked for, in the
\* store's order.
MatchingRecords(c) ==
    SelectSeq(HashData,
              LAMBDA doc : Matches(doc, build_query(args[c].product_id,
                                                    args[c].from_time,
                                                    args[c].to_time)))

SeveralMatch(c) == HashRecordFound(c) /\ Len(MatchingRecords(c)) > 1

\* C17: when hash records match, the sensor.hash of the first of them is the
\* one hash of the call: the ledger is asked for "sensor," + that hash, the
\* time-series store is queried with it, the recomputed hash is compared
\* against it, and a verdict that carries a hash carries it.
C17_FirstRecordSingleHash ==
    \A c \in Calls :
        HashRecordFound(c) =>
            LET h == MatchingRecords(c)[1].sensor.hash
            IN  /\ \A i \in DOMAIN io[c] :
                       /\ io[c][i].to = "ledger" => io[c][i].sent = LedgerKey(h)
                       /\ io[c][i].to = "influx" => io[c][i].sent = h
                /\ Returned(cross_validate_iot_data[c]) =>
                       (cross_validate_iot_data[c].value.checked
                            <=> cross_validate_iot_data[c].value.hash = PyStr(h))
                /\ (ReturnedVerdict(c) /\ outcome[c].body.hash # None) =>
                       outcome[c].body.hash = PyStr(h)

\* Two records with different hashes matched, and the call went through the
\* ledger and the time-series store to a verdict that carries a hash.
C17_Witness ==
    \E c \in Calls :
        /\ SeveralMatch(c)
        /\ MatchingRecords(c)[1].sensor.hash # MatchingRecords(c)[2].sensor.hash
        /\ Asked(c, "ledger") /\ Asked(c, "influx")
        /\ Returned(cross_validate_iot_data[c])
        /\ ReturnedVerdict(c) /\ outcome[c].body.hash # None

====
